---- MODULE Spec2Model ----
(***************************************************************************)
(* Fed batch bioreactor notebook: the derivative function dxdt, the sweep  *)
(* loop over the feed rates Fs and the solve_ivp calls it makes.           *)
(*                                                                         *)
(* Numbers are exact rationals <<n, d>> with d > 0 in lowest terms; the    *)
(* pair <<0, 0>> stands for a non-finite float (inf or nan), which is what *)
(* numpy arithmetic yields for a division by zero.                         *)
(***************************************************************************)
EXTENDS Integers, Sequences, FiniteSets, TLC

VARIABLES
    mu_max, K_s, Y_xs, Y_px,   \* parameters (notebook cell 1)
    States,                    \* the module-level names X, S, P, V (cell 2)
    x0,                        \* initial state vector [X, S, P, V] (cell 2)
    F, S_f,                    \* module-level inputs read by dxdt (cell 3)
    Fs,                        \* the feed rates of the sweep (cell 9)
    results,                   \* the list of solve_ivp results (cell 10)
    pc,                        \* position of the notebook's control
    i,                         \* number of elements the running for loop has taken
    ts, ys,                    \* solve_ivp in progress: sample times and states
    reads,                     \* history: the F each dxdt call of this solve read
    out,                       \* the value solve_ivp returned, before the append
    runs, prevResults,         \* history: executions of cells 10-11, last results
    arg, frame,                \* a single call dxdt(t, arg) and its locals
    task,                      \* per-scenario solves when run as parallel tasks
    ax                         \* the axes of the figure (cell 13)

vars == <<mu_max, K_s, Y_xs, Y_px, x0, F, S_f, Fs, results, pc, i, ts, ys,
          reads, out, runs, prevResults, arg, frame, task, States, ax>>

----------------------------------------------------------------------------
(* Bounds of the model *)

\* number of points of the evaluation grid tsmooth (one solver step between
\* two consecutive points)
NumPoints == 3
\* longest list Fs
MaxScenarios == 2
\* executions of the sweep cells (cell 10 + cell 11)
MaxRuns == 2

----------------------------------------------------------------------------
(* Exact rational arithmetic, with <<0,0>> for a non-finite float *)

RECURSIVE Gcd(_, _)
Gcd(a, b) == IF b = 0 THEN a ELSE Gcd(b, a % b)

Abs(n) == IF n < 0 THEN -n ELSE n

NonFinite == <<0, 0>>
IsFinite(r) == r[2] # 0

Norm(n, d) ==
    LET g == Gcd(Abs(n), Abs(d))
    IN  IF d = 0 THEN NonFinite
        ELSE IF d < 0 THEN <<(-n) \div g, (-d) \div g>>
        ELSE <<n \div g, d \div g>>

Rat(n, d) == Norm(n, d)
Zero == <<0, 1>>
One == <<1, 1>>

RNeg(a) == IF IsFinite(a) THEN <<-a[1], a[2]>> ELSE NonFinite

RAdd(a, b) ==
    IF ~IsFinite(a) \/ ~IsFinite(b) THEN NonFinite
    ELSE LET g == Gcd(a[2], b[2])
         IN  Norm(a[1] * (b[2] \div g) + b[1] * (a[2] \div g), (a[2] \div g) * b[2])

RSub(a, b) == RAdd(a, RNeg(b))

RMul(a, b) ==
    IF ~IsFinite(a) \/ ~IsFinite(b) THEN NonFinite
    ELSE LET g1 == Gcd(Abs(a[1]), b[2])
             g2 == Gcd(Abs(b[1]), a[2])
         IN  Norm((a[1] \div g1) * (b[1] \div g2), (a[2] \div g2) * (b[2] \div g1))

\* numpy float division: a zero divisor gives inf or nan, not an exception
\* (the divisors of dxdt that can be zero, V and K_s + S, are numpy floats)
RDiv(a, b) ==
    IF ~IsFinite(a) \/ ~IsFinite(b) \/ b[1] = 0 THEN NonFinite
    ELSE RMul(a, Norm(b[2], b[1]))

RLe(a, b) == a[1] * b[2] <= b[1] * a[2]
RLt(a, b) == a[1] * b[2] < b[1] * a[2]

VecFinite(v) == \A j \in 1..Len(v) : IsFinite(v[j])
VecAdd(u, v) == [j \in 1..Len(u) |-> RAdd(u[j], v[j])]
VecScale(c, v) == [j \in 1..Len(v) |-> RMul(c, v[j])]

----------------------------------------------------------------------------
(* dxdt *)

\* the Monod rate written without its parentheses: mu_max * S / K_s + S
Monod_NoParentheses(S) == RAdd(RDiv(RMul(mu_max, S), K_s), S)

\* mu = mu_max * S / (K_s + S)
Monod(S) == RDiv(RMul(mu_max, S), RAdd(K_s, S))

\* dxdt with the dilution term of the cell balance dropped: dXdt = rg
dxdtLocals_NoDilution(x, Fg, Sfg) ==
    LET X == x[1]
        S == x[2]
        P == x[3]
        V == x[4]
        mu == Monod(S)
        rg == RMul(mu, X)
        rp == RMul(Y_px, rg)
        dVdt == Fg
        dXdt == RMul(RDiv(One, V), RMul(V, rg))
        dPdt == RMul(RDiv(One, V), RSub(RMul(V, rp), RMul(dVdt, P)))
        dSdt == RMul(RDiv(One, V),
                     RSub(RSub(RMul(Fg, Sfg),
                               RMul(RMul(RDiv(One, Y_xs), V), rg)),
                          RMul(dVdt, S)))
    IN  [mu |-> mu, rg |-> rg, rp |-> rp,
         ret |-> <<dXdt, dSdt, dPdt, dVdt>>]

\* dxdt with the yield used instead of its inverse in the substrate balance
dxdtLocals_YieldInverted(x, Fg, Sfg) ==
    LET X == x[1]
        S == x[2]
        P == x[3]
        V == x[4]
        mu == Monod(S)
        rg == RMul(mu, X)
        rp == RMul(Y_px, rg)
        dVdt == Fg
        dXdt == RMul(RDiv(One, V), RSub(RMul(V, rg), RMul(dVdt, X)))
        dPdt == RMul(RDiv(One, V), RSub(RMul(V, rp), RMul(dVdt, P)))
        dSdt == RMul(RDiv(One, V),
                     RSub(RSub(RMul(Fg, Sfg), RMul(RMul(Y_xs, V), rg)),
                          RMul(dVdt, S)))
    IN  [mu |-> mu, rg |-> rg, rp |-> rp,
         ret |-> <<dXdt, dSdt, dPdt, dVdt>>]

\* dxdt with the volume balance left out: dVdt = 0
dxdtLocals_ConstantVolume(x, Fg, Sfg) ==
    LET X == x[1]
        S == x[2]
        P == x[3]
        V == x[4]
        mu == Monod(S)
        rg == RMul(mu, X)
        rp == RMul(Y_px, rg)
        dVdt == Zero
        dXdt == RMul(RDiv(One, V), RSub(RMul(V, rg), RMul(dVdt, X)))
        dPdt == RMul(RDiv(One, V), RSub(RMul(V, rp), RMul(dVdt, P)))
        dSdt == RMul(RDiv(One, V),
                     RSub(RSub(RMul(Fg, Sfg),
                               RMul(RMul(RDiv(One, Y_xs), V), rg)),
                          RMul(dVdt, S)))
    IN  [mu |-> mu, rg |-> rg, rp |-> rp,
         ret |-> <<dXdt, dSdt, dPdt, dVdt>>]

\* dxdt with the product balance written for a constant volume: dPdt = rp
dxdtLocals_ProductUndiluted(x, Fg, Sfg) ==
    LET X == x[1]
        S == x[2]
        P == x[3]
        V == x[4]
        mu == Monod(S)
        rg == RMul(mu, X)
        rp == RMul(Y_px, rg)
        dVdt == Fg
        dXdt == RMul(RDiv(One, V), RSub(RMul(V, rg), RMul(dVdt, X)))
        dPdt == rp
        dSdt == RMul(RDiv(One, V),
                     RSub(RSub(RMul(Fg, Sfg),
                               RMul(RMul(RDiv(One, Y_xs), V), rg)),
                          RMul(dVdt, S)))
    IN  [mu |-> mu, rg |-> rg, rp |-> rp,
         ret |-> <<dXdt, dSdt, dPdt, dVdt>>]

\* dxdt with the sign of the volume balance reversed: dVdt = -F
dxdtLocals_Draining(x, Fg, Sfg) ==
    LET X == x[1]
        S == x[2]
        P == x[3]
        V == x[4]
        mu == Monod(S)
        rg == RMul(mu, X)
        rp == RMul(Y_px, rg)
        dVdt == RNeg(Fg)
        dXdt == RMul(RDiv(One, V), RSub(RMul(V, rg), RMul(dVdt, X)))
        dPdt == RMul(RDiv(One, V), RSub(RMul(V, rp), RMul(dVdt, P)))
        dSdt == RMul(RDiv(One, V),
                     RSub(RSub(RMul(Fg, Sfg),
                               RMul(RMul(RDiv(One, Y_xs), V), rg)),
                          RMul(dVdt, S)))
    IN  [mu |-> mu, rg |-> rg, rp |-> rp,
         ret |-> <<dXdt, dSdt, dPdt, dVdt>>]

\* dxdt with the feed term of the substrate balance subtracted
dxdtLocals_FeedRemovesSubstrate(x, Fg, Sfg) ==
    LET X == x[1]
        S == x[2]
        P == x[3]
        V == x[4]
        mu == Monod(S)
        rg == RMul(mu, X)
        rp == RMul(Y_px, rg)
        dVdt == Fg
        dXdt == RMul(RDiv(One, V), RSub(RMul(V, rg), RMul(dVdt, X)))
        dPdt == RMul(RDiv(One, V), RSub(RMul(V, rp), RMul(dVdt, P)))
        dSdt == RMul(RDiv(One, V),
                     RSub(RSub(RNeg(RMul(Fg, Sfg)),
                               RMul(RMul(RDiv(One, Y_xs), V), rg)),
                          RMul(dVdt, S)))
    IN  [mu |-> mu, rg |-> rg, rp |-> rp,
         ret |-> <<dXdt, dSdt, dPdt, dVdt>>]

\* The body of dxdt(t, x), evaluated when the module-level names F and S_f
\* hold Fg and Sfg: all its locals and the list it returns.
dxdtLocals(x, Fg, Sfg) ==
    LET X == x[1]
        S == x[2]
        P == x[3]
        V == x[4]
        mu == Monod(S)
        rg == RMul(mu, X)
        rp == RMul(Y_px, rg)
        dVdt == Fg
        dXdt == RMul(RDiv(One, V), RSub(RMul(V, rg), RMul(dVdt, X)))
        dPdt == RMul(RDiv(One, V), RSub(RMul(V, rp), RMul(dVdt, P)))
        dSdt == RMul(RDiv(One, V),
                     RSub(RSub(RMul(Fg, Sfg),
                               RMul(RMul(RDiv(One, Y_xs), V), rg)),
                          RMul(dVdt, S)))
    IN  [mu |-> mu, rg |-> rg, rp |-> rp,
         ret |-> <<dXdt, dSdt, dPdt, dVdt>>]

\* dxdt reads F and S_f from the module scope at the time of the call
dxdt(t, x) == dxdtLocals(x, F, S_f).ret

----------------------------------------------------------------------------
(* Time span and evaluation grid (cells 7 and 8) *)

\* numpy.linspace(a, b, num)[k], k = 1..num
\* numpy.linspace(a, b, num, endpoint=False)
linspace_NoEndpoint(a, b, num, k) ==
    RAdd(a, RMul(Rat(k - 1, 1), RDiv(RSub(b, a), Rat(num, 1))))

linspace(a, b, num, k) ==
    RAdd(a, RMul(Rat(k - 1, 1), RDiv(RSub(b, a), Rat(num - 1, 1))))

\* the horizon is scaled with the grid, so that consecutive points are one
\* time unit apart
tspan == <<Zero, Rat(NumPoints - 1, 1)>>
tsmooth == [k \in 1..NumPoints |-> linspace(tspan[1], tspan[2], NumPoints, k)]

----------------------------------------------------------------------------
(* scipy.integrate.solve_ivp(dxdt, tspan, x0, t_eval=tsmooth), as far as   *)
(* the notebook depends on it: an explicit Runge-Kutta integration that    *)
(* starts from a copy of y0, calls the derivative function at the current  *)
(* point, advances to the next grid point and reports the states at the    *)
(* grid points. One explicit step is taken per grid interval.              *)

Last(s) == s[Len(s)]

\* the explicit update y + h * f
RKUpdate(y, h, f) == VecAdd(y, VecScale(h, f))

\* out.y has one row per state variable and one column per sample
Transpose(samples) ==
    [r \in 1..4 |-> [k \in 1..Len(samples) |-> samples[k][r]]]

\* the OdeResult; reads is a history field: the values of F the derivative
\* calls of this solve read, in call order
OdeResult(tsq, ysq, st, rd) ==
    [t |-> tsq, y |-> Transpose(ysq), status |-> st, success |-> (st = 0),
     nfev |-> Len(rd), reads |-> rd]

NoResult == [t |-> <<>>, y |-> <<>>, status |-> 0, success |-> FALSE,
             nfev |-> 0, reads |-> <<>>]

----------------------------------------------------------------------------
(* The sweep: cells 10 and 11 *)

\* the loop with a loop variable of its own (for f in Fs): the module-level F
\* that dxdt reads is not rebound
ForNext_NoRebind ==
    /\ pc = "for"
    /\ i < Len(Fs)
    /\ i' = i + 1
    /\ ts' = <<tsmooth[1]>>
    /\ ys' = <<x0>>
    /\ reads' = <<>>
    /\ pc' = "solve"
    /\ UNCHANGED <<mu_max, K_s, Y_xs, Y_px, x0, F, S_f, Fs, results, out, runs,
                   prevResults, arg, frame, task,
                   States, ax>>

\* the loop with each integration started from the state the previous one
\* ended in
ForNext_ContinueFromLast ==
    /\ pc = "for"
    /\ i < Len(Fs)
    /\ F' = Fs[i + 1]
    /\ i' = i + 1
    /\ ts' = <<tsmooth[1]>>
    /\ ys' = <<IF Len(ys) > 0 THEN ys[Len(ys)] ELSE x0>>
    /\ reads' = <<>>
    /\ pc' = "solve"
    /\ UNCHANGED <<mu_max, K_s, Y_xs, Y_px, x0, S_f, Fs, results, out, runs,
                   prevResults, arg, frame, task,
                   States, ax>>

\* for F in Fs: the loop binds the module-level F to the next element and
\* enters solve_ivp, which copies x0
ForNext ==
    /\ pc = "for"
    /\ i < Len(Fs)
    /\ F' = Fs[i + 1]
    /\ i' = i + 1
    /\ ts' = <<tsmooth[1]>>
    /\ ys' = <<x0>>
    /\ reads' = <<>>
    /\ pc' = "solve"
    /\ UNCHANGED <<mu_max, K_s, Y_xs, Y_px, x0, S_f, Fs, results, out, runs,
                   prevResults, arg, frame, task,
                   States, ax>>

\* a solver that integrates in the caller's list instead of a copy of it
SolveStep_InPlace ==
    /\ pc = "solve"
    /\ Len(ys) < NumPoints
    /\ LET k == Len(ys)
           f == dxdt(ts[k], ys[k])
       IN  /\ VecFinite(f)
           /\ ys' = Append(ys, RKUpdate(ys[k], RSub(tsmooth[k + 1], ts[k]), f))
           /\ ts' = Append(ts, tsmooth[k + 1])
           /\ x0' = ys'[k + 1]
    /\ reads' = Append(reads, F)
    /\ UNCHANGED <<mu_max, K_s, Y_xs, Y_px, F, S_f, Fs, results, pc, i,
                   out, runs, prevResults, arg, frame, task,
                   States, ax>>

\* one solver step: evaluate dxdt at the current point, advance to the next
\* grid point
\* a step under a feed profile: F is stepped up at every grid point
SolveStep_FeedProfile ==
    /\ pc = "solve"
    /\ Len(ys) < NumPoints
    /\ LET k == Len(ys)
           f == dxdt(ts[k], ys[k])
       IN  /\ VecFinite(f)
           /\ ys' = Append(ys, RKUpdate(ys[k], RSub(tsmooth[k + 1], ts[k]), f))
           /\ ts' = Append(ts, tsmooth[k + 1])
    /\ reads' = Append(reads, F)
    /\ F' = RAdd(F, One)
    /\ UNCHANGED <<mu_max, K_s, Y_xs, Y_px, x0, S_f, Fs, results, pc, i,
                   out, runs, prevResults, arg, frame, task,
                   States, ax>>

SolveStep ==
    /\ pc = "solve"
    /\ Len(ys) < NumPoints
    /\ LET k == Len(ys)
           f == dxdt(ts[k], ys[k])
       IN  /\ VecFinite(f)
           /\ ys' = Append(ys, RKUpdate(ys[k], RSub(tsmooth[k + 1], ts[k]), f))
           /\ ts' = Append(ts, tsmooth[k + 1])
    /\ reads' = Append(reads, F)
    /\ UNCHANGED <<mu_max, K_s, Y_xs, Y_px, x0, F, S_f, Fs, results, pc, i,
                   out, runs, prevResults, arg, frame, task,
                   States, ax>>

\* the derivative at the initial point is not finite: the initial step size
\* is nan and the step loop never ends
SolveHang ==
    /\ pc = "solve"
    /\ Len(ys) = 1
    /\ ~VecFinite(dxdt(ts[1], ys[1]))
    /\ reads' = Append(reads, F)
    /\ pc' = "hung"
    /\ UNCHANGED <<mu_max, K_s, Y_xs, Y_px, x0, F, S_f, Fs, results, i, ts,
                   ys, out, runs, prevResults, arg, frame, task,
                   States, ax>>

\* the derivative stops being finite after the first step: the step size
\* shrinks below the minimum and solve_ivp returns status -1 with the
\* samples it has
SolveFail ==
    /\ pc = "solve"
    /\ 1 < Len(ys) /\ Len(ys) < NumPoints
    /\ ~VecFinite(dxdt(Last(ts), Last(ys)))
    /\ reads' = Append(reads, F)
    /\ out' = OdeResult(ts, ys, -1, reads')
    /\ pc' = "append"
    /\ UNCHANGED <<mu_max, K_s, Y_xs, Y_px, x0, F, S_f, Fs, results, i, ts,
                   ys, runs, prevResults, arg, frame, task,
                   States, ax>>

\* the end of the time span is reached: solve_ivp returns status 0
SolveReturn ==
    /\ pc = "solve"
    /\ Len(ys) = NumPoints
    /\ out' = OdeResult(ts, ys, 0, reads)
    /\ pc' = "append"
    /\ UNCHANGED <<mu_max, K_s, Y_xs, Y_px, x0, F, S_f, Fs, results, i, ts,
                   ys, reads, runs, prevResults, arg, frame, task,
                   States, ax>>

\* results.insert(0, out)
ResultsAppend_Prepend ==
    /\ pc = "append"
    /\ results' = <<out>> \o results
    /\ pc' = "for"
    /\ UNCHANGED <<mu_max, K_s, Y_xs, Y_px, x0, F, S_f, Fs, i, ts, ys, reads,
                   out, runs, prevResults, arg, frame, task,
                   States, ax>>

\* results.append(out)
ResultsAppend ==
    /\ pc = "append"
    /\ results' = Append(results, out)
    /\ pc' = "for"
    /\ UNCHANGED <<mu_max, K_s, Y_xs, Y_px, x0, F, S_f, Fs, i, ts, ys, reads,
                   out, runs, prevResults, arg, frame, task,
                   States, ax>>

\* a loop whose variable is local to it: the module-level F is the configured
\* one again when the loop ends
ForExit_LoopScopedF ==
    /\ pc = "for"
    /\ i = Len(Fs)
    /\ pc' = "done"
    /\ F' = Rat(1, 20)
    /\ UNCHANGED <<mu_max, K_s, Y_xs, Y_px, x0, S_f, Fs, results, i, ts,
                   ys, reads, out, runs, prevResults, arg, frame, task,
                   States, ax>>

\* the for loop is exhausted
ForExit ==
    /\ pc = "for"
    /\ i = Len(Fs)
    /\ pc' = "done"
    /\ UNCHANGED <<mu_max, K_s, Y_xs, Y_px, x0, F, S_f, Fs, results, i, ts,
                   ys, reads, out, runs, prevResults, arg, frame, task,
                   States, ax>>

\* cells 10 and 11 are executed again: results = [] and the loop restarts
RunAgain ==
    /\ pc = "done"
    /\ runs < MaxRuns
    /\ prevResults' = results
    /\ results' = <<>>
    /\ i' = 0
    /\ runs' = runs + 1
    /\ pc' = "for"
    /\ UNCHANGED <<mu_max, K_s, Y_xs, Y_px, x0, F, S_f, Fs, ts, ys, reads,
                   out, arg, frame, task,
                   States, ax>>

\* the kernel is interrupted while solve_ivp runs: KeyboardInterrupt leaves
\* the loop and the cell, nothing catches it
Interrupt ==
    /\ pc = "solve"
    /\ pc' = "interrupted"
    /\ UNCHANGED <<mu_max, K_s, Y_xs, Y_px, x0, F, S_f, Fs, results, i, ts,
                   ys, reads, out, runs, prevResults, arg, frame, task,
                   States, ax>>

----------------------------------------------------------------------------
(* The figure: cells 12 and 13 *)

\* the names in the figure's reading order, ['X', 'P', 'S', 'V']
names_GridOrder == <<"X", "P", "S", "V">>

names == <<"X", "S", "P", "V">>
units == [n \in {"X", "S", "P", "V"} |->
              IF n = "V" THEN "L" ELSE "g/L"]

\* fig, [[ax['X'], ax['P']], [ax['S'], ax['V']]] = plt.subplots(2, 2)
subplots ==
    [n \in {"X", "P", "S", "V"} |-> [lines |-> <<>>, ylabel |-> <<>>,
                                     xlabel |-> ""]]

\* var = {name: y for name, y in zip(names, out.y)}
var(o) ==
    [n \in {names[r] : r \in 1..Len(names)} |->
         o.y[CHOOSE r \in 1..Len(names) : names[r] = n]]

\* ax = {} and plt.subplots: cell 13 starts after the sweep
PlotBegin ==
    /\ pc = "done"
    /\ ax' = subplots
    /\ i' = 0
    /\ pc' = "plot"
    /\ UNCHANGED <<mu_max, K_s, Y_xs, Y_px, x0, F, S_f, Fs, results, ts, ys,
                   reads, out, runs, prevResults, arg, frame, task, States>>

\* for F, out in zip(Fs, results): one line per name on the axes of that
\* name, labelled f'{name} ({units[name]})'
PlotNext ==
    /\ pc = "plot"
    /\ i < Len(Fs) /\ i < Len(results)
    /\ F' = Fs[i + 1]
    /\ out' = results[i + 1]
    /\ i' = i + 1
    /\ ax' = [n \in DOMAIN ax |->
                 IF \E r \in 1..Len(names) : names[r] = n
                 THEN [lines |-> Append(ax[n].lines,
                                        [t |-> out'.t, y |-> var(out')[n]]),
                       ylabel |-> <<n, units[n]>>,
                       xlabel |-> "Time (hr)"]
                 ELSE ax[n]]
    /\ UNCHANGED <<mu_max, K_s, Y_xs, Y_px, x0, S_f, Fs, results, pc, ts, ys,
                   reads, runs, prevResults, arg, frame, task, States>>

\* zip is exhausted: plt.tight_layout()
PlotEnd ==
    /\ pc = "plot"
    /\ ~(i < Len(Fs) /\ i < Len(results))
    /\ pc' = "plotted"
    /\ UNCHANGED <<mu_max, K_s, Y_xs, Y_px, x0, F, S_f, Fs, results, i, ts,
                   ys, reads, out, runs, prevResults, arg, frame, task,
                   States, ax>>

----------------------------------------------------------------------------
(* Configurations *)

\* The sweep is run on small rational values in place of the notebook's
\* literals (x0 = [0.05, 10, 0, 1], Fs = [0.05, 0.02]): the arithmetic is exact
\* and the numerators of a trajectory must stay within 32 bits. A zero
\* initial volume, a negative feed rate and an empty list are among them.

\* feed rates tried in Fs
FeedRates == {Rat(0, 1), Rat(1, 2), Rat(1, 1), Rat(-1, 1)}
\* initial volumes tried
Volumes == {Rat(0, 1), Rat(1, 1), Rat(2, 1)}

SeqsUpTo(S, n) == UNION {[1..m -> S] : m \in 0..n}

\* the state after cells 1 to 10
Init ==
    /\ mu_max = Rat(1, 5)
    /\ K_s = Rat(1, 1)
    /\ Y_xs = Rat(1, 2)
    /\ Y_px = Rat(1, 5)
    /\ \E V0 \in Volumes :
           States = [X |-> Rat(1, 1), S |-> Rat(1, 1), P |-> Rat(0, 1), V |-> V0]
    /\ x0 = <<States.X, States.S, States.P, States.V>>
    /\ ax = <<>>
    /\ F = Rat(1, 20)
    /\ S_f = Rat(10, 1)
    /\ Fs \in SeqsUpTo(FeedRates, MaxScenarios)
    /\ results = <<>>
    /\ pc = "for"
    /\ i = 0
    /\ ts = <<>>
    /\ ys = <<>>
    /\ reads = <<>>
    /\ out = NoResult
    /\ runs = 1
    /\ prevResults = <<>>
    /\ arg = <<>>
    /\ frame = <<>>
    /\ task = <<>>

Next ==
    \/ ForNext
    \/ SolveStep
    \/ SolveHang
    \/ SolveFail
    \/ SolveReturn
    \/ ResultsAppend
    \/ ForExit
    \/ RunAgain
    \/ Interrupt
    \/ PlotBegin
    \/ PlotNext
    \/ PlotEnd

Spec == Init /\ [][Next]_vars

----------------------------------------------------------------------------
(* A run of solve_ivp on its own, with the feed rate f bound for the whole *)
(* integration: what the sweep of the one-element list [f] computes.       *)

\* returned is FALSE when the call never returns
RECURSIVE SoloFrom(_, _, _, _)
SoloFrom(tsq, ysq, rd, f) ==
    LET k == Len(ysq)
        d == dxdtLocals(ysq[k], f, S_f).ret
    IN  IF k = NumPoints
        THEN [returned |-> TRUE, res |-> OdeResult(tsq, ysq, 0, rd)]
        ELSE IF VecFinite(d)
             THEN SoloFrom(Append(tsq, tsmooth[k + 1]),
                           Append(ysq, RKUpdate(ysq[k], RSub(tsmooth[k + 1], tsq[k]), d)),
                           Append(rd, f), f)
        ELSE IF k = 1
             THEN [returned |-> FALSE, res |-> OdeResult(tsq, ysq, -1, Append(rd, f))]
        ELSE [returned |-> TRUE, res |-> OdeResult(tsq, ysq, -1, Append(rd, f))]

SoloRun(f) == SoloFrom(<<tsmooth[1]>>, <<x0>>, <<>>, f)

----------------------------------------------------------------------------
(* A single call of dxdt on an arbitrary state *)

\* values tried for the parameters, the inputs and the state components
ParamValues == {Rat(1, 5), Rat(1, 2), Rat(1, 1)}
YieldValues == {Rat(1, 2), Rat(1, 5)}
FeedValues == {Rat(0, 1), Rat(1, 20), Rat(1, 50)}
FeedConcValues == {Rat(0, 1), Rat(10, 1)}
ConcValues == {Rat(0, 1), Rat(1, 20), Rat(10, 1)}
VolumeValues == {Rat(0, 1), Rat(1, 1), Rat(21, 20)}

InitFn ==
    /\ mu_max \in ParamValues
    /\ K_s \in ParamValues
    /\ Y_xs \in YieldValues
    /\ Y_px = Rat(1, 5)
    /\ F \in FeedValues
    /\ S_f \in FeedConcValues
    /\ arg \in {<<X, S, P, V>> : X \in ConcValues, S \in ConcValues,
                                 P \in {Rat(0, 1), Rat(1, 2)}, V \in VolumeValues}
    /\ frame = <<>>
    /\ pc = "call"
    /\ States = [X |-> Rat(1, 20), S |-> Rat(10, 1), P |-> Rat(0, 1),
                 V |-> Rat(1, 1)]
    /\ x0 = <<States.X, States.S, States.P, States.V>>
    /\ ax = <<>>
    /\ Fs = <<>>
    /\ results = <<>>
    /\ i = 0
    /\ ts = <<>>
    /\ ys = <<>>
    /\ reads = <<>>
    /\ out = NoResult
    /\ runs = 1
    /\ prevResults = <<>>
    /\ task = <<>>

\* dxdt writing the derivatives into the list it was passed
CallDxdt_InPlace ==
    /\ pc = "call"
    /\ frame' = [dxdtLocals(arg, F, S_f) EXCEPT !.ret = dxdt(Zero, arg)]
    /\ arg' = frame'.ret
    /\ pc' = "returned"
    /\ UNCHANGED <<mu_max, K_s, Y_xs, Y_px, x0, F, S_f, Fs, results, i, ts,
                   ys, reads, out, runs, prevResults, task,
                   States, ax>>

\* dxdt(0, arg) runs to its return statement
CallDxdt ==
    /\ pc = "call"
    /\ frame' = [dxdtLocals(arg, F, S_f) EXCEPT !.ret = dxdt(Zero, arg)]
    /\ pc' = "returned"
    /\ UNCHANGED <<mu_max, K_s, Y_xs, Y_px, x0, F, S_f, Fs, results, i, ts,
                   ys, reads, out, runs, prevResults, arg, task,
                   States, ax>>

NextFn == CallDxdt

SpecFn == InitFn /\ [][NextFn]_vars

----------------------------------------------------------------------------
(* The iterations of the sweep loop run as one task per scenario, their    *)
(* steps interleaved: task j binds F to Fs[j], calls solve_ivp and appends *)
(* the result. The tasks run in the notebook's module scope, so the name F *)
(* that dxdt reads is the one name every task binds.                       *)
(* Only valid configurations are run: with V0 > 0 and every F >= 0 the     *)
(* volume stays positive under every interleaving, so every derivative is  *)
(* finite and every solve_ivp call returns at the end of the time span.    *)

NewTask == [pc |-> "bind", ts |-> <<>>, ys |-> <<>>, reads |-> <<>>,
            out |-> NoResult]

InitPar ==
    /\ mu_max = Rat(1, 5)
    /\ K_s = Rat(1, 1)
    /\ Y_xs = Rat(1, 2)
    /\ Y_px = Rat(1, 5)
    /\ \E V0 \in {v \in Volumes : RLt(Zero, v)} :
           States = [X |-> Rat(1, 1), S |-> Rat(1, 1), P |-> Rat(0, 1), V |-> V0]
    /\ x0 = <<States.X, States.S, States.P, States.V>>
    /\ ax = <<>>
    /\ F = Rat(1, 20)
    /\ S_f = Rat(10, 1)
    /\ Fs \in SeqsUpTo({f \in FeedRates : RLe(Zero, f)}, MaxScenarios)
    /\ Fs # <<>>
    /\ results = <<>>
    /\ pc = "par"
    /\ i = 0
    /\ ts = <<>>
    /\ ys = <<>>
    /\ reads = <<>>
    /\ out = NoResult
    /\ runs = 1
    /\ prevResults = <<>>
    /\ arg = <<>>
    /\ frame = <<>>
    /\ task = [j \in 1..Len(Fs) |-> NewTask]

ParUnchanged == <<mu_max, K_s, Y_xs, Y_px, x0, S_f, Fs, pc, i, ts, ys, reads,
                  out, runs, prevResults, arg, frame, States, ax>>

\* task j takes its element of Fs: F = Fs[j], and enters solve_ivp
TaskBind(j) ==
    /\ task[j].pc = "bind"
    /\ F' = Fs[j]
    /\ task' = [task EXCEPT ![j] = [pc |-> "solve", ts |-> <<tsmooth[1]>>,
                                    ys |-> <<x0>>, reads |-> <<>>,
                                    out |-> NoResult]]
    /\ UNCHANGED <<ParUnchanged, results>>

\* one solver step of task j
TaskStep(j) ==
    /\ task[j].pc = "solve"
    /\ Len(task[j].ys) < NumPoints
    /\ LET k == Len(task[j].ys)
           f == dxdt(task[j].ts[k], task[j].ys[k])
       IN  /\ VecFinite(f)
           /\ task' = [task EXCEPT
                  ![j].ys = Append(@, RKUpdate(task[j].ys[k],
                                RSub(tsmooth[k + 1], task[j].ts[k]), f)),
                  ![j].ts = Append(@, tsmooth[k + 1]),
                  ![j].reads = Append(@, F)]
    /\ UNCHANGED <<ParUnchanged, F, results>>

\* solve_ivp of task j returns at the end of the time span
TaskReturn(j) ==
    /\ task[j].pc = "solve"
    /\ Len(task[j].ys) = NumPoints
    /\ task' = [task EXCEPT
           ![j].pc = "append",
           ![j].out = OdeResult(task[j].ts, task[j].ys, 0, task[j].reads)]
    /\ UNCHANGED <<ParUnchanged, F, results>>

\* results.append(out) of task j
TaskAppend(j) ==
    /\ task[j].pc = "append"
    /\ results' = Append(results, task[j].out)
    /\ task' = [task EXCEPT ![j].pc = "done"]
    /\ UNCHANGED <<ParUnchanged, F>>

NextPar ==
    \/ \E j \in 1..Len(Fs) : TaskBind(j)
    \/ \E j \in 1..Len(Fs) : TaskStep(j)
    \/ \E j \in 1..Len(Fs) : TaskReturn(j)
    \/ \E j \in 1..Len(Fs) : TaskAppend(j)

SpecPar == InitPar /\ [][NextPar]_vars

----------------------------------------------------------------------------
(* Claims about a single call of dxdt (checked under SpecFn) *)

\* C1: for every state (X, S, P, V) with V > 0 and every input (F, Sf), dxdt
\* returns [dX/dt, dS/dt, dP/dt, dV/dt] in the order of the state vector, with
\* mu = mu_max*S/(K_s+S), r_g = mu*X, r_p = Y_px*r_g, dV/dt = F,
\* dX/dt = (V*r_g - F*X)/V, dP/dt = (V*r_p - F*P)/V and
\* dS/dt = (F*Sf - (1/Y_xs)*V*r_g - F*S)/V, every dilution term included.
C1_DxdtFormula ==
    (pc = "returned" /\ RLt(Zero, arg[4])) =>
        LET X == arg[1]
            S == arg[2]
            P == arg[3]
            V == arg[4]
            mu == RDiv(RMul(mu_max, S), RAdd(K_s, S))
            r_g == RMul(mu, X)
            r_p == RMul(Y_px, r_g)
            growthS == RMul(RMul(RDiv(One, Y_xs), V), r_g)
        IN  /\ frame.mu = mu
            /\ frame.rg = r_g
            /\ frame.rp = r_p
            /\ frame.ret[1] = RDiv(RSub(RMul(V, r_g), RMul(F, X)), V)
            /\ frame.ret[2] = RDiv(RSub(RSub(RMul(F, S_f), growthS), RMul(F, S)), V)
            /\ frame.ret[3] = RDiv(RSub(RMul(V, r_p), RMul(F, P)), V)
            /\ frame.ret[4] = F
            /\ Len(frame.ret) = 4

\* a call with V > 0 in which every dilution term is non-zero has returned
C1_Witness ==
    /\ pc = "returned"
    /\ RLt(Zero, arg[4])
    /\ RLt(Zero, F)
    /\ RLt(Zero, arg[1]) /\ RLt(Zero, arg[2]) /\ RLt(Zero, arg[3])
    /\ frame.ret[1] # frame.rg

\* substrate concentrations at which the growth rate is compared
SubstrateValues == ConcValues \cup {Rat(1, 2), Rat(1, 1), Rat(2, 1), Rat(100, 1)}

\* C2: for strictly positive mu_max and K_s and every S >= 0, the growth rate
\* mu(S) = mu_max*S/(K_s+S) is non-decreasing in S, at most mu_max, and
\* mu(0) = 0; a call of dxdt with S = 0 divides by nothing that is zero and
\* gives mu = r_g = r_p = 0 (no growth).
C2_MonodMonotoneBounded ==
    (RLt(Zero, mu_max) /\ RLt(Zero, K_s)) =>
        /\ \A s1, s2 \in SubstrateValues :
               RLe(s1, s2) => RLe(Monod(s1), Monod(s2))
        /\ \A s \in SubstrateValues :
               IsFinite(Monod(s)) /\ RLe(Zero, Monod(s)) /\ RLe(Monod(s), mu_max)
        /\ Monod(Zero) = Zero
        /\ pc = "returned" =>
               /\ IsFinite(frame.mu) /\ RLe(frame.mu, mu_max)
               /\ arg[2] = Zero =>
                      /\ frame.mu = Zero
                      /\ frame.rg = Zero
                      /\ frame.rp = Zero
                      /\ (RLt(Zero, arg[4]) => VecFinite(frame.ret))

\* a call with cells present and no substrate has returned
C2_Witness ==
    /\ pc = "returned"
    /\ arg[2] = Zero
    /\ RLt(Zero, arg[1])
    /\ RLt(Zero, arg[4])
    /\ frame.rg = Zero

----------------------------------------------------------------------------
(* Claims about the sweep (checked under Spec) *)

\* the k-th sample of a result, as a state vector
Sample(o, k) == [r \in 1..4 |-> o.y[r][k]]
NumSamples(o) == Len(o.t)
\* the trajectory of a result: its sample times, its states and how it ended
Trajectory(o) == [t |-> o.t, y |-> o.y, status |-> o.status]
\* a solve is in progress or has just returned
Solving == pc \in {"solve", "append", "hung"}

\* S + X / Y_xs
SubstrateEquivalent(x) == RAdd(x[2], RDiv(x[1], Y_xs))

\* C3: for a scenario with F = 0 (and V0 > 0), V stays equal to V0 along the
\* whole trajectory, every derivative evaluation gives dS/dt = -(1/Y_xs)*r_g
\* and dV/dt = 0, and S + X/Y_xs is the same at every sample, so the substrate
\* consumed over any sub-interval is 1/Y_xs times the biomass produced.
C3_ClosedSystemMassBalance ==
    RLt(Zero, x0[4]) =>
        /\ \A j \in 1..Len(results) :
               Fs[j] = Zero =>
                   \A k \in 1..NumSamples(results[j]) :
                       /\ Sample(results[j], k)[4] = x0[4]
                       /\ SubstrateEquivalent(Sample(results[j], k))
                              = SubstrateEquivalent(x0)
        /\ (Solving /\ Fs[i] = Zero) =>
               /\ \A k \in 1..Len(ys) :
                      /\ ys[k][4] = x0[4]
                      /\ SubstrateEquivalent(ys[k]) = SubstrateEquivalent(x0)
                      /\ k < NumPoints =>
                             LET fr == dxdtLocals(ys[k], F, S_f)
                             IN  /\ fr.ret[2] = RNeg(RMul(RDiv(One, Y_xs), fr.rg))
                                 /\ fr.ret[4] = Zero
                                 /\ dxdt(ts[k], ys[k]) = fr.ret

\* a closed-system scenario has been integrated to the end and biomass grew
C3_Witness ==
    /\ pc = "done"
    /\ \E j \in 1..Len(results) :
           /\ Fs[j] = Zero
           /\ results[j].status = 0
           /\ NumSamples(results[j]) = NumPoints
           /\ RLt(x0[1], Sample(results[j], NumPoints)[1])
           /\ RLt(Sample(results[j], NumPoints)[2], x0[2])

\* C4: in every scenario's trajectory the volume at every sample time t is
\* V0 + F*t, with F the feed rate of that same scenario.
C4_VolumeLinearInOwnFeed ==
    /\ \A j \in 1..Len(results) :
           \A k \in 1..NumSamples(results[j]) :
               Sample(results[j], k)[4]
                   = RAdd(x0[4], RMul(Fs[j], results[j].t[k]))
    /\ Solving =>
           \A k \in 1..Len(ys) : ys[k][4] = RAdd(x0[4], RMul(Fs[i], ts[k]))

\* a sweep of two different non-zero feed rates has completed, and the two
\* volumes differ at the end
C4_Witness ==
    /\ pc = "done"
    /\ Len(results) = 2
    /\ Fs[1] # Fs[2] /\ Fs[1] # Zero /\ Fs[2] # Zero
    /\ results[1].status = 0 /\ results[2].status = 0
    /\ Sample(results[1], NumPoints)[4] # Sample(results[2], NumPoints)[4]

\* C5: the trajectory of a scenario run inside a sweep is the trajectory of
\* that scenario run alone, whatever its position and the other scenarios.
C5_ScenarioIndependence ==
    /\ \A j \in 1..Len(results) :
           LET solo == SoloRun(Fs[j])
           IN  /\ solo.returned
               /\ Trajectory(results[j]) = Trajectory(solo.res)
    /\ Solving =>
           LET solo == SoloRun(Fs[i])
           IN  /\ \A k \in 1..Len(ys) :
                      /\ k <= NumSamples(solo.res)
                      /\ ys[k] = Sample(solo.res, k)
               /\ pc = "hung" => ~solo.returned
               /\ pc = "append" =>
                      /\ solo.returned
                      /\ Trajectory(out) = Trajectory(solo.res)

\* a second scenario, different from the first, has been integrated after it
C5_Witness ==
    /\ Len(results) = 2
    /\ Fs[1] # Fs[2]
    /\ results[2].status = 0
    /\ Trajectory(results[1]) # Trajectory(results[2])

\* C7: integrations with identical inputs give identical trajectories: two
\* scenarios of one sweep with the same F, and the same scenario when the
\* sweep is run again.
C7_Determinism ==
    /\ \A j, k \in 1..Len(results) :
           Fs[j] = Fs[k] => Trajectory(results[j]) = Trajectory(results[k])
    /\ runs > 1 =>
           /\ Len(results) <= Len(prevResults)
           /\ \A j \in 1..Len(results) :
                  Trajectory(results[j]) = Trajectory(prevResults[j])
    /\ Solving =>
           \A k \in 1..Len(ys) :
               /\ \A j \in 1..Len(results) :
                      Fs[j] = Fs[i] =>
                          /\ k <= NumSamples(results[j])
                          /\ ys[k] = Sample(results[j], k)
               /\ runs > 1 =>
                      /\ i <= Len(prevResults)
                      /\ k <= NumSamples(prevResults[i])
                      /\ ys[k] = Sample(prevResults[i], k)

\* the sweep of a list that holds the same feed rate twice has run twice
C7_Witness ==
    /\ pc = "done"
    /\ runs = 2
    /\ Len(results) = 2
    /\ Fs[1] = Fs[2]
    /\ results[1].status = 0
    /\ Sample(results[1], NumPoints) # x0

\* C8: the first sample of every trajectory of the sweep is the initial state
\* x0 at t = t0, for the second and later scenarios too, and x0 is never
\* changed.
C8_FirstSampleIsInitialState ==
    /\ [](\A j \in 1..Len(results) :
              /\ NumSamples(results[j]) >= 1
              /\ results[j].t[1] = tspan[1]
              /\ Sample(results[j], 1) = x0)
    /\ [][x0' = x0]_vars

\* a second scenario has been integrated after a first one that moved the
\* state away from x0
C8_Witness ==
    /\ Len(results) = 2
    /\ results[1].status = 0
    /\ Sample(results[1], NumPoints) # x0
    /\ Sample(results[2], 1) = x0

\* C9: when the sweep has completed, results holds one result per element of
\* Fs, and the j-th result was integrated with the j-th feed rate: every
\* derivative call of that solve read F = Fs[j], and its volume grows at the
\* rate Fs[j].
C9_OneResultPerScenarioInOrder ==
    /\ Len(results) <= Len(Fs)
    /\ pc = "done" => Len(results) = Len(Fs)
    /\ \A j \in 1..Len(results) :
           /\ results[j].nfev >= 1
           /\ \A c \in 1..Len(results[j].reads) : results[j].reads[c] = Fs[j]
           /\ NumSamples(results[j]) >= 2 =>
                  RSub(Sample(results[j], 2)[4], Sample(results[j], 1)[4])
                      = RMul(Fs[j], RSub(results[j].t[2], results[j].t[1]))

\* a sweep of two different feed rates has completed
C9_Witness ==
    /\ pc = "done"
    /\ Len(Fs) = 2
    /\ Fs[1] # Fs[2]
    /\ Len(results) = 2
    /\ results[1].reads # results[2].reads

----------------------------------------------------------------------------
(* Claims about configurations and about interleaved scenarios *)

\* a configuration the error taxonomy rejects
InvalidConfiguration ==
    \/ ~RLt(Zero, x0[4])
    \/ \E c \in 1..3 : RLt(x0[c], Zero)
    \/ ~RLt(Zero, mu_max) \/ ~RLt(Zero, K_s) \/ ~RLt(Zero, Y_xs)
    \/ RLt(S_f, Zero)
    \/ Fs = <<>>
    \/ \E j \in 1..Len(Fs) : RLt(Fs[j], Zero)
    \/ \E k \in 1..(NumPoints - 1) : ~RLt(tsmooth[k], tsmooth[k + 1])

\* C10: with an invalid configuration the sweep stops before any integration
\* begins: solve_ivp is not entered, dxdt is not called and no result is
\* produced.
C10_InvalidConfigurationStopsSweep ==
    InvalidConfiguration =>
        /\ ~Solving
        /\ reads = <<>>
        /\ results = <<>>

\* C6: when the scenarios' integrations are interleaved, every scenario's
\* trajectory is the one the sequential run gives it.
C6_InterleavedScenariosAgree ==
    \A j \in 1..Len(Fs) :
        task[j].pc \in {"append", "done"} =>
            /\ SoloRun(Fs[j]).returned
            /\ Trajectory(task[j].out) = Trajectory(SoloRun(Fs[j]).res)

----------------------------------------------------------------------------
(* Claims about failures, the sampling grid and the figure *)

\* the sweep cell has stopped running, whichever way
SweepStopped == pc \in {"done", "hung", "interrupted"}

\* C11: when the sweep stops there is exactly one result per requested
\* scenario, also when one scenario's integration failed or was cancelled,
\* and the scenarios after a failed one were still integrated.
C11_FailureIsScenarioLocal ==
    SweepStopped =>
        /\ Len(results) = Len(Fs)
        /\ \A j \in 1..Len(Fs) : results[j].status \in {0, -1}

\* the points of tsmooth that a result's samples should lie on
GridOf(o) == [k \in 1..Len(o.t) |-> tsmooth[k]]

\* C12: the sample times of every trajectory are strictly increasing and are
\* the points of the one shared grid tsmooth from its first point on; every
\* scenario integrated to the end has all NumPoints samples, from tspan[1] to
\* tspan[2], so the trajectories of a sweep have equal length.
C12_SharedStrictlyIncreasingGrid ==
    /\ \A k \in 1..(Len(ts) - 1) : RLt(ts[k], ts[k + 1])
    /\ Solving => /\ Len(ts) = Len(ys)
                  /\ ts = [k \in 1..Len(ts) |-> tsmooth[k]]
    /\ \A j \in 1..Len(results) :
           LET o == results[j] IN
           /\ \A k \in 1..(Len(o.t) - 1) : RLt(o.t[k], o.t[k + 1])
           /\ o.t = GridOf(o)
           /\ \A r \in 1..4 : Len(o.y[r]) = NumSamples(o)
           /\ o.t[1] = tspan[1]
           /\ o.status = 0 => /\ o.t = tsmooth
                              /\ Last(o.t) = tspan[2]
           /\ ~InvalidConfiguration => o.status = 0
    /\ \A j1, j2 \in 1..Len(results) :
           (results[j1].status = 0 /\ results[j2].status = 0) =>
               /\ Len(results[j1].t) = Len(results[j2].t)
               /\ results[j1].t = results[j2].t

C12_Witness ==
    /\ pc = "done"
    /\ ~InvalidConfiguration
    /\ Len(results) = 2
    /\ Fs[1] # Fs[2]
    /\ results[1].t = results[2].t
    /\ Len(results[1].t) = NumPoints

\* the state that the lines plotted for the j-th scenario show at sample k,
\* read off the axes by their names
Labelled(j, k) ==
    <<ax["X"].lines[j].y[k], ax["S"].lines[j].y[k],
      ax["P"].lines[j].y[k], ax["V"].lines[j].y[k]>>

\* C13: every line of the figure is on the axes named after the state
\* variable its row holds: read by name, the plotted values start at the
\* module-level X, S, P, V, which is x0 in its order, and advance by the
\* derivatives dxdt returns in the order dXdt, dSdt, dPdt, dVdt; the y label
\* of the axes is the name with the unit g/L for X, S and P and L for V.
C13_RowsLabelledByName ==
    pc \in {"plot", "plotted"} =>
        /\ DOMAIN ax = {names[r] : r \in 1..Len(names)}
        /\ \A r \in 1..Len(names) : Len(ax[names[r]].lines) = i
        /\ \A j \in 1..i :
               /\ \A r \in 1..Len(names) :
                      /\ ax[names[r]].lines[j].t = results[j].t
                      /\ ax[names[r]].lines[j].y = results[j].y[r]
                      /\ ax[names[r]].ylabel =
                             <<names[r], IF r = 4 THEN "L" ELSE "g/L">>
               /\ Labelled(j, 1) = <<States.X, States.S, States.P, States.V>>
               /\ Labelled(j, 1) = x0
               /\ \A k \in 1..(NumSamples(results[j]) - 1) :
                      LET h == RSub(results[j].t[k + 1], results[j].t[k])
                          d == dxdtLocals(Labelled(j, k), Fs[j], S_f).ret
                      IN  /\ Labelled(j, k + 1) =
                                 RKUpdate(Labelled(j, k), h, d)
                          /\ RSub(ax["V"].lines[j].y[k + 1],
                                  ax["V"].lines[j].y[k]) = RMul(h, Fs[j])

C13_Witness ==
    /\ pc = "plotted"
    /\ ~InvalidConfiguration
    /\ Len(Fs) = 2
    /\ Len(ax["V"].lines) = 2
    /\ ax["V"].lines[1].y # ax["V"].lines[2].y
    /\ ax["S"].lines[1].y # ax["X"].lines[1].y
    /\ ax["V"].ylabel = <<"V", "L">>

----------------------------------------------------------------------------
(* Further claims about one call of dxdt *)

\* d(c*V)/dt by the product rule, from the derivatives a call returned
ProductRule(c, dcdt) == RAdd(RMul(arg[4], dcdt), RMul(c, frame.ret[4]))

\* C14: for every state with V > 0 the derivatives dxdt returns satisfy
\* V*dX/dt + X*dV/dt = V*r_g, V*dP/dt + P*dV/dt = V*r_p and
\* V*dS/dt + S*dV/dt = F*Sf - (1/Y_xs)*V*r_g, and so
\* d(PV)/dt = Y_px * d(XV)/dt.
C14_ProductRuleBalances ==
    (pc = "returned" /\ RLt(Zero, arg[4])) =>
        LET X == arg[1]
            S == arg[2]
            P == arg[3]
            V == arg[4]
            r_g == RMul(RDiv(RMul(mu_max, S), RAdd(K_s, S)), X)
            r_p == RMul(Y_px, r_g)
        IN  /\ ProductRule(X, frame.ret[1]) = RMul(V, r_g)
            /\ ProductRule(P, frame.ret[3]) = RMul(V, r_p)
            /\ ProductRule(S, frame.ret[2]) =
                   RSub(RMul(F, S_f), RMul(RMul(RDiv(One, Y_xs), V), r_g))
            /\ ProductRule(P, frame.ret[3]) =
                   RMul(Y_px, ProductRule(X, frame.ret[1]))

\* a call with V > 0, growth, feed and product present has returned
C14_Witness ==
    /\ pc = "returned"
    /\ RLt(Zero, arg[4])
    /\ RLt(Zero, F)
    /\ RLt(Zero, arg[3])
    /\ RLt(Zero, frame.rg)
    /\ frame.ret[3] # frame.rp
    /\ arg[4] # One

----------------------------------------------------------------------------
(* Further claims about the sweep *)

\* C15: from the start to the end of the integration of the scenario with
\* feed rate Fs[i], F is Fs[i] and every call of dxdt has read that value;
\* no step taken while the solve is in progress reassigns F or S_f, so every
\* call reads the same S_f.
C15_InputsConstantDuringSolve ==
    /\ [](Solving => /\ F = Fs[i]
                     /\ \A k \in 1..Len(reads) : reads[k] = Fs[i]
                     /\ Len(reads) >= Len(ys) - 1)
    /\ [][pc = "solve" => (F' = F /\ S_f' = S_f)]_vars

\* the second scenario, with another feed rate than the first, has been
\* integrated to the end
C15_Witness ==
    /\ pc = "append"
    /\ i = 2
    /\ Fs[1] # Fs[2]
    /\ Len(reads) = NumPoints - 1
    /\ \A k \in 1..Len(reads) : reads[k] = Fs[2]
    /\ out.status = 0

----------------------------------------------------------------------------
(* The frame of a call of dxdt *)

\* everything a call of dxdt could reach: the parameters, the inputs, the
\* module-level X, S, P, V, x0 and the list passed in
Reachable == <<mu_max, K_s, Y_xs, Y_px, F, S_f, States, x0, arg>>

\* C16: a call of dxdt changes none of the parameters, of F and S_f, of the
\* module-level X, S, P, V, of x0 and of the state vector passed in; what it
\* returns is a new list of four derivatives.
C16_DxdtHasNoSideEffects ==
    /\ [][(pc = "call" /\ pc' = "returned") =>
              (Reachable' = Reachable /\ frame'.ret # frame)]_vars
    /\ [](pc = "returned" =>
              /\ x0 = <<States.X, States.S, States.P, States.V>>
              /\ Len(arg) = 4
              /\ Len(frame.ret) = 4
              /\ frame.ret = dxdtLocals(arg, F, S_f).ret)

\* a call has returned non-zero derivatives for a state other than the
\* module-level X, S, P, V
C16_Witness ==
    /\ pc = "returned"
    /\ arg # x0
    /\ RLt(Zero, arg[4])
    /\ frame.ret # <<Zero, Zero, Zero, Zero>>
    /\ frame.ret # arg

----------------------------------------------------------------------------
(* Claims about the region the trajectories stay in *)

\* the volumes in a sequence of states are positive and never decrease
VolumeKeptPositive(states) ==
    \A k \in 1..Len(states) :
        /\ RLt(Zero, states[k][4])
        /\ IsFinite(RDiv(One, states[k][4]))
        /\ k > 1 => RLe(states[k - 1][4], states[k][4])

\* the states of a result, sample by sample
SamplesOf(o) == [k \in 1..NumSamples(o) |-> Sample(o, k)]

\* the volume the shipped configuration (V = 1, tspan = [0, 30], 50 grid
\* points) has at grid point k with feed rate f: dV/dt = F is constant
ShippedVolume(f, k) ==
    RAdd(One, RMul(f, linspace(Zero, Rat(30, 1), 50, k)))

\* C17: with V0 > 0 and F >= 0 the volume never decreases along the
\* trajectory and is positive at every state dxdt is evaluated at, so no
\* division by V is a division by zero and the solve runs to the end; with
\* the shipped V = 1 and F in {0.05, 0.02} the volume is positive at every
\* grid point of [0, 30].
C17_VolumeStaysPositive ==
    RLt(Zero, x0[4]) =>
        /\ (Solving /\ RLe(Zero, Fs[i])) =>
               /\ VolumeKeptPositive(ys)
               /\ pc # "hung"
               /\ pc = "append" => out.status = 0
        /\ \A j \in 1..Len(results) :
               RLe(Zero, Fs[j]) =>
                   /\ VolumeKeptPositive(SamplesOf(results[j]))
                   /\ results[j].status = 0
        /\ pc = "for" =>
               \A f \in {Rat(1, 20), Rat(1, 50)} : \A k \in 1..50 :
                   RLt(Zero, ShippedVolume(f, k))

\* a scenario with a positive feed rate has been integrated to the end and
\* its volume has grown
C17_Witness ==
    /\ pc = "append"
    /\ RLt(Zero, x0[4])
    /\ RLt(Zero, Fs[i])
    /\ Len(ys) = NumPoints
    /\ RLt(ys[1][4], ys[NumPoints][4])
    /\ out.status = 0

\* states on and off the boundaries X = 0, S = 0 and P = 0, with V > 0
BoundaryStates ==
    {<<X, S, P, V>> : X \in {Zero, One}, S \in {Zero, One}, P \in {Zero, One},
                      V \in {v \in Volumes : RLt(Zero, v)}}

NonNegative(x) == \A c \in 1..3 : RLe(Zero, x[c])

\* at state x with feed rate f the derivative points outwards on no boundary
InwardAt(x, f) ==
    LET d == dxdtLocals(x, f, S_f)
    IN  /\ x[1] = Zero => d.ret[1] = Zero
        /\ x[2] = Zero => /\ d.ret[2] = RDiv(RMul(f, S_f), x[4])
                          /\ RLe(Zero, d.ret[2])
        /\ x[3] = Zero => /\ d.ret[3] = d.rp
                          /\ RLe(Zero, d.ret[3])

----------------------------------------------------------------------------
(* The module-level names after the sweep *)

\* the sweep, or the plotting loop after it, has run to its end
AfterLoops == pc \in {"done", "plotted"}

\* C19: after the sweep, and again after the plotting loop, the module-level
\* F is the last element of Fs and not the F configured in cell 4, so a call
\* of dxdt made then gives dVdt = Fs[-1]; with an empty Fs no loop body runs
\* and F is left as configured. S_f is never assigned.
C19_SweepRebindsGlobalF ==
    /\ []((AfterLoops /\ Fs # <<>>) =>
              /\ F = Last(Fs)
              /\ F # Rat(1, 20)
              /\ dxdt(Zero, x0)[4] = Last(Fs))
    /\ []((AfterLoops /\ Fs = <<>>) => F = Rat(1, 20))
    /\ [][S_f' = S_f]_vars
    /\ [](S_f = Rat(10, 1))

\* the plotting loop has ended after a sweep over two different feed rates
C19_Witness ==
    /\ pc = "plotted"
    /\ Len(Fs) = 2
    /\ Fs[1] # Fs[2]
    /\ F = Fs[2]
    /\ F # Rat(1, 20)
    /\ Len(results) = 2

====
